---- MODULE Spec2Model ----
(***************************************************************************)
(* Model of the debounced, cached API hook of                              *)
(* src/interview-prep/hooks/useDebounce.js: useDebounce (the timer) and    *)
(* useDebouncedAPI (cache, abort controller, data / loading / error).      *)
(* Every event handler, timer callback and promise continuation of the     *)
(* hook is one atomic action (JavaScript runs them to completion); a       *)
(* re-render and the effects it flushes belong to the action that caused   *)
(* them.  Time is counted in ticks; the debounce delay is Delay ticks.     *)
(* The module also models usePagination of hooks/usePagination.js, a hook  *)
(* of its own with its own state and its own specification, and in the     *)
(* same way useDebouncedSearch, PagedInfiniteScroll, the two sortable      *)
(* tables and the favorites of RecipeDetail, each kept in one record.      *)
(***************************************************************************)
EXTENDS Integers, Sequences, FiniteSets, Bags, TLC

\* ------------------------------------------------------------------ bounds
Delay == 2
MaxPending == 2
MaxCacheSize == 2
MaxItems == 5
MaxPageSize == 3
MaxLoads == 3
MaxColumns == 3
MaxRecipes == 3

\* Query strings the caller may type: blank, whitespace only, and three
\* distinct cache keys, one of them with trailing whitespace.
Queries == {"", " ", "a", "a ", "b"}

\* Messages of the Error objects the injected apiCall may reject with.
Messages == {"", "net"}

\* ------------------------------------------------------------- JS values
NoData == <<>>
NoError == "null"
NoTimer == [active |-> FALSE, value |-> "", left |-> 0]

\* mounted          the component using the hook is mounted
\* cacheSize        the cacheSize argument of the hook
\* query, debouncedQuery, data, loading, error   the useState cells
\* timer            the pending setTimeout handler of useDebounce
\* cache            cache.current, the Map as its entries in insertion order
\* lookups          the pending apiCall promises, a bag: q is the query of
\*                  the call, aborted is signal.aborted of the controller
\*                  made for it, ctl tells that abortController.current is
\*                  that controller (no promise has ctl when it is null),
\*                  sup tells that the effect that started the call has
\*                  been cleaned up since
\* sinceChange      ticks since the last change of query, counted up to
\*                  Delay
\* lateCall         setQuery has been called after the pending handler had
\*                  waited for at least one tick, and the handler is still
\*                  the same
\* emitted          timer callbacks run since the last change of query
\* last             what fetchData, a promise continuation or clearCache
\*                  did last
VARIABLES mounted, cacheSize, query, debouncedQuery, timer,
          data, loading, error, cache, lookups,
          sinceChange, lateCall, emitted, last

vars == <<mounted, cacheSize, query, debouncedQuery, timer,
          data, loading, error, cache, lookups,
          sinceChange, lateCall, emitted, last>>

\* usePagination:
\* totalItems       the totalItems prop of the last render
\* initialPage, initialPageSize   the arguments the hook was mounted with
\* currentPage, pageSize          the useState cells
\* called           the last call of the caller: its name and its argument
VARIABLES totalItems, initialPage, initialPageSize, currentPage, pageSize,
          called

pvars == <<totalItems, initialPage, initialPageSize, currentPage, pageSize,
           called>>

\* search      useDebouncedSearch: the state cells searchTerm, results,
\*             loading, error, the debounced term and the handler of its
\*             useDebounce, and the pending searchFunction promises (q the
\*             term, cur: started by the latest run of the search effect)
\* scroll      PagedInfiniteScroll: the state cells items (the pages
\*             appended), currentPage, hasNextPage, isLoading, error; seen,
\*             the values of the render whose loadMoreItems and observer
\*             callback are installed; the pending loadPage calls
\* sorting     SortableTable.sortConfig and MultiSortTable.sortConfigs, with
\*             streak, the clicks in a row on one column of SortableTable
\*             since another column or none was the key, and clicks, the
\*             clicks on each column of MultiSortTable counted modulo 3
\* favorites   RecipeDetail: the logged-in user, the recipe shown, the
\*             localStorage items 'favorites' and 'rating_<id>', the state
\*             cells isFavorite and rating; toggles counts the calls of
\*             handleFavorite in a row (up to 2), before is the set of
\*             favorites before the first of them
VARIABLES search, scroll, sorting, favorites

cvars == <<search, scroll, sorting, favorites>>

\* ------------------------------------------------------------ pure parts
\* String.prototype.trim on the strings of Queries.
Trim(q) ==
  CASE q = " " -> ""
    [] q = "a " -> "a"
    [] OTHER -> q

\* cache.current.has(key) / cache.current.get(key) on the insertion-ordered Map.
CacheHas(c, key) == \E i \in 1..Len(c) : c[i].key = key

CacheGet(c, key) == c[CHOOSE i \in 1..Len(c) : c[i].key = key].value

\* Map.prototype.delete(key): removes the entry, keeps the order of the rest.
MapDelete(c, key) == SelectSeq(c, LAMBDA e : e.key # key)

\* Map.prototype.set(key, value): an existing key keeps its position and gets
\* the new value, a new key is appended.
MapSet(c, key, value) ==
  IF CacheHas(c, key)
    THEN [i \in 1..Len(c) |-> IF c[i].key = key THEN [key |-> key, value |-> value] ELSE c[i]]
    ELSE Append(c, [key |-> key, value |-> value])

\* addToCache: at or over capacity the first key of the Map is deleted
\* (deleting the undefined first key of an empty Map does nothing).
AddToCache(c, size, key, value) ==
  LET c1 == IF Len(c) >= size
              THEN (IF Len(c) = 0 THEN c ELSE Tail(c))
              ELSE c
  IN  MapSet(c1, key, value)

\* The check of the error's name left out: every rejection is surfaced.
IsAbortErrorNever(name) == FALSE

\* err.name !== 'AbortError'
IsAbortError(name) == name = "AbortError"

\* setError(err.message) without the fallback.
ErrorMessageVerbatim(msg) == msg

\* err.message || 'API call failed'
ErrorMessage(msg) == IF msg = "" THEN "API call failed" ELSE msg

\* The value the injected apiCall resolves with, a function of the query
\* as in mockSearchAPI.
Result(q) == <<"result", q>>

\* The bag of the promises F(r), for the promises r of the bag ls.
MapBag(F(_), ls) ==
  LET S == BagToSet(ls)
  IN  [t \in {F(r) : r \in S} |->
         BagCardinality([r \in {x \in S : F(x) = t} |-> ls[r]])]

\* abortController.current.abort(), guarded by if (abortController.current).
Abort(ls) ==
  MapBag(LAMBDA r : IF r.ctl THEN [r EXCEPT !.aborted = TRUE] ELSE r, ls)

\* abortController.current = null, or a new controller: no pending promise
\* has the current controller any more.
Unref(ls) == MapBag(LAMBDA r : [r EXCEPT !.ctl = FALSE], ls)

\* Cleanup of the fetch effect: it runs before the effect runs again and on
\* unmount.  Every lookup started earlier is superseded from here on (sup);
\* the one abortController.current still points to is aborted.
Cleanup(ls) == MapBag(LAMBDA r : [r EXCEPT !.sup = TRUE], Abort(ls))

\* The pending promises without r, which has settled.
Remove(ls, r) == ls (-) SetToBag({r})

\* ------------------------------------------------------------------ Init
\* State after the first render and its effects: useDebounce has scheduled
\* a timer for the initial query '', fetchData ran the blank branch.
Init ==
  /\ mounted = TRUE
  /\ \/ cacheSize = MaxCacheSize
     \/ cacheSize \in 0..(MaxCacheSize - 1)
  /\ query = ""
  /\ debouncedQuery = ""
  /\ timer = [active |-> TRUE, value |-> "", left |-> Delay]
  /\ data = NoData
  /\ loading = FALSE
  /\ error = NoError
  /\ cache = <<>>
  /\ lookups = EmptyBag
  /\ sinceChange = 0
  /\ lateCall = FALSE
  /\ emitted = 0
  /\ last = "blank"

\* --------------------------------------------------------------- actions
\* useDebounce without the clearTimeout: a handler that is already pending
\* stays as it is.
StartTimerKeepPending(v) ==
  IF timer.active THEN timer ELSE [active |-> TRUE, value |-> v, left |-> Delay]

\* useDebounce's effect for a new value: clearTimeout of the old handler,
\* setTimeout of a new one.
StartTimer(v) == [active |-> TRUE, value |-> v, left |-> Delay]

\* setQuery(v) by the caller.  React bails out when the value is unchanged:
\* no render, the effect of useDebounce does not run again.
SetQuery(v) ==
  /\ mounted
  /\ IF v = query
       THEN /\ lateCall' = (lateCall \/ (timer.active /\ timer.left < Delay))
            /\ UNCHANGED <<query, timer, sinceChange, emitted>>
       ELSE /\ query' = v
            /\ timer' = StartTimer(v)
            /\ sinceChange' = 0
            /\ lateCall' = FALSE
            /\ emitted' = 0
  /\ UNCHANGED <<mounted, cacheSize, debouncedQuery, data, loading, error,
                 cache, lookups, last>>

\* fetchData without the look into the cache.
FetchDataNoCache(dq, ls) ==
  IF Trim(dq) = ""
    THEN /\ data' = NoData
         /\ loading' = FALSE
         /\ lookups' = ls
         /\ last' = "blank"
         /\ UNCHANGED error
    ELSE /\ BagCardinality(ls) < MaxPending
         /\ lookups' = Unref(Abort(ls)) (+)
                          SetToBag({[q |-> dq, aborted |-> FALSE, sup |-> FALSE,
                                     ctl |-> TRUE]})
         /\ loading' = TRUE
         /\ error' = NoError
         /\ last' = "miss"
         /\ UNCHANGED data

\* fetchData for the debounced query dq, after the effect cleanup left the
\* pending lookups ls; runs up to the await.
FetchData(dq, ls) ==
  IF Trim(dq) = ""
    THEN /\ data' = NoData
         /\ loading' = FALSE
         /\ lookups' = ls
         /\ last' = "blank"
         /\ UNCHANGED error
    ELSE IF CacheHas(cache, dq)
      THEN /\ data' = CacheGet(cache, dq)
           /\ loading' = FALSE
           /\ lookups' = ls
           /\ last' = "hit"
           /\ UNCHANGED error
      ELSE /\ BagCardinality(ls) < MaxPending
           /\ lookups' = Unref(Abort(ls)) (+)
                            SetToBag({[q |-> dq, aborted |-> FALSE, sup |-> FALSE,
                                       ctl |-> TRUE]})
           /\ loading' = TRUE
           /\ error' = NoError
           /\ last' = "miss"
           /\ UNCHANGED data

\* One tick of time passes; a due timer fires before time moves on.
Tick ==
  /\ mounted
  /\ timer.active => timer.left > 0
  /\ timer' = IF timer.active THEN [timer EXCEPT !.left = @ - 1] ELSE timer
  /\ sinceChange' = IF sinceChange < Delay THEN sinceChange + 1 ELSE Delay
  /\ UNCHANGED <<mounted, cacheSize, query, debouncedQuery, data, loading,
                 error, cache, lookups, lateCall, emitted, last>>

\* The rest of the delay passes at once, with no other event in between
\* (the step of time of the specification that does not count ticks).
Elapse ==
  /\ mounted
  /\ timer.active
  /\ timer.left > 0
  /\ timer' = [timer EXCEPT !.left = 0]
  /\ UNCHANGED <<mounted, cacheSize, query, debouncedQuery, data, loading,
                 error, cache, lookups, emitted, last, sinceChange, lateCall>>

\* The setTimeout handler of useDebounce: setDebouncedValue(value).  When
\* the value differs, the fetch effect is cleaned up and run again.
TimerFire ==
  /\ mounted
  /\ timer.active
  /\ timer.left = 0
  /\ timer' = NoTimer
  /\ emitted' = emitted + 1
  /\ debouncedQuery' = timer.value
  /\ IF timer.value = debouncedQuery
       THEN UNCHANGED <<data, loading, error, lookups, last>>
       ELSE FetchData(timer.value, Cleanup(lookups))
  /\ lateCall' = FALSE
  /\ UNCHANGED <<mounted, cacheSize, query, cache, sinceChange>>

\* finally { setLoading(false); abortController.current = null; } of the
\* call whose promise r has settled.  State setters do nothing once the
\* component is unmounted.
Finally(r) ==
  /\ loading' = IF mounted THEN FALSE ELSE loading
  /\ lookups' = Unref(Remove(lookups, r))

\* The continuation after the await without addToCache.
ResolveNoCache(r) ==
  /\ BagIn(r, lookups)
  /\ data' = IF mounted THEN Result(r.q) ELSE data
  /\ cache' = cache
  /\ Finally(r)
  /\ last' = IF r.sup THEN "staleResolved" ELSE "resolved"
  /\ UNCHANGED <<mounted, cacheSize, query, debouncedQuery, timer, error,
                 sinceChange, lateCall, emitted>>

\* The continuation after the await filing the result under the debounced
\* query of the latest render instead of the one of its own closure.
ResolveUnderCurrentKey(r) ==
  /\ BagIn(r, lookups)
  /\ data' = IF mounted THEN Result(r.q) ELSE data
  /\ cache' = AddToCache(cache, cacheSize, debouncedQuery, Result(r.q))
  /\ Finally(r)
  /\ last' = IF r.sup THEN "staleResolved" ELSE "resolved"
  /\ UNCHANGED <<mounted, cacheSize, query, debouncedQuery, timer, error,
                 sinceChange, lateCall, emitted>>

\* The pending promise r resolves: the continuation after the await.
Resolve(r) ==
  /\ BagIn(r, lookups)
  /\ data' = IF mounted THEN Result(r.q) ELSE data
  /\ cache' = AddToCache(cache, cacheSize, r.q, Result(r.q))
  /\ Finally(r)
  /\ last' = IF r.sup THEN "staleResolved" ELSE "resolved"
  /\ UNCHANGED <<mounted, cacheSize, query, debouncedQuery, timer, error,
                 sinceChange, lateCall, emitted>>

\* The pending promise r rejects with an Error called name with message
\* msg.  Only a lookup whose signal was aborted rejects with an AbortError.
Reject(r, name, msg) ==
  /\ BagIn(r, lookups)
  /\ name = "AbortError" => r.aborted
  /\ IF IsAbortError(name) \/ ~mounted
       THEN UNCHANGED <<error, data>>
       ELSE /\ error' = ErrorMessage(msg)
            /\ data' = NoData
  /\ Finally(r)
  /\ last' = IF name = "AbortError" THEN "cancelled"
             ELSE IF r.sup THEN "staleRejected" ELSE "rejected"
  /\ UNCHANGED <<mounted, cacheSize, query, debouncedQuery, timer, cache,
                 sinceChange, lateCall, emitted>>

\* clearCache() that also aborts the controller of the pending lookup.
ClearCacheAndAbort ==
  /\ mounted
  /\ cache' = <<>>
  /\ lookups' = Abort(lookups)
  /\ last' = "cleared"
  /\ UNCHANGED <<mounted, cacheSize, query, debouncedQuery, timer, data,
                 loading, error, sinceChange, lateCall, emitted>>

\* clearCache()
ClearCache ==
  /\ mounted
  /\ cache' = <<>>
  /\ last' = "cleared"
  /\ UNCHANGED <<mounted, cacheSize, query, debouncedQuery, timer, data,
                 loading, error, lookups, sinceChange, lateCall, emitted>>

\* refetch(): deletes the key of the debounced query, then the two batched
\* updaters leave query = (query + ' ').trim().
Refetch ==
  /\ mounted
  /\ cache' = MapDelete(cache, debouncedQuery)
  /\ IF Trim(query) = query
       THEN UNCHANGED <<query, timer, sinceChange, lateCall, emitted>>
       ELSE /\ query' = Trim(query)
            /\ timer' = StartTimer(Trim(query))
            /\ sinceChange' = 0
            /\ lateCall' = FALSE
            /\ emitted' = 0
  /\ UNCHANGED <<mounted, cacheSize, debouncedQuery, data, loading, error,
                 lookups, last>>

\* Unmount without the cleanup of useDebounce: the handler stays scheduled.
UnmountKeepTimer ==
  /\ mounted
  /\ mounted' = FALSE
  /\ lookups' = Cleanup(lookups)
  /\ query' = ""
  /\ debouncedQuery' = ""
  /\ data' = NoData
  /\ loading' = FALSE
  /\ error' = NoError
  /\ sinceChange' = 0
  /\ lateCall' = FALSE
  /\ UNCHANGED <<cacheSize, cache, last, emitted, timer>>

\* Unmount: the cleanups of both effects run and React drops the state
\* cells of the component; the refs live on in the closures of the pending
\* promises.  emitted stays, so that emitted = 0 afterwards tells that the
\* handler was still pending when the component was unmounted.
Unmount ==
  /\ mounted
  /\ mounted' = FALSE
  /\ timer' = NoTimer
  /\ lookups' = Cleanup(lookups)
  /\ query' = ""
  /\ debouncedQuery' = ""
  /\ data' = NoData
  /\ loading' = FALSE
  /\ error' = NoError
  /\ sinceChange' = 0
  /\ lateCall' = FALSE
  /\ UNCHANGED <<cacheSize, cache, last, emitted>>

AnyResolve == \E r \in BagToSet(lookups) : Resolve(r)

AnyReject ==
  \E r \in BagToSet(lookups) : \E name \in {"Error", "AbortError"} :
    \E msg \in Messages : Reject(r, name, msg)

\* ---------------------------------------------------------- usePagination
Max(a, b) == IF a >= b THEN a ELSE b

Min(a, b) == IF a <= b THEN a ELSE b

\* Math.floor(items / size) in place of Math.ceil.
TotalPagesFloor(items, size) == items \div size

\* Math.ceil(totalItems / pageSize) for totalItems >= 0 and pageSize >= 1:
\* the quotient, and one more when the division leaves a remainder.
TotalPages(items, size) ==
  IF items % size = 0 THEN items \div size ELSE (items \div size) + 1

\* Page sizes the caller chooses from, and the pages it asks for: below,
\* inside and above every range of pages.
PageSizes == 1..MaxPageSize

PageArgs == (-1)..(MaxItems + 1)

NoArg == 0

\* The hook is mounted with a list of totalItems items, a page size and an
\* initial page of that list (the default is page 1).
PInit ==
  /\ totalItems \in 0..MaxItems
  /\ initialPageSize \in PageSizes
  /\ initialPage \in 1..Max(1, TotalPages(totalItems, initialPageSize))
  /\ currentPage = initialPage
  /\ pageSize = initialPageSize
  /\ called = [name |-> "mount", arg |-> NoArg]

\* The hook as the component that only uses useDebouncedAPI has it: not
\* called, with its default arguments.
PIdle ==
  /\ totalItems = 0
  /\ initialPageSize = MaxPageSize
  /\ initialPage = 1
  /\ currentPage = 1
  /\ pageSize = MaxPageSize
  /\ called = [name |-> "mount", arg |-> NoArg]

\* goToPage without the clamp.
GoToPageNoClamp(page) ==
  /\ currentPage' = page
  /\ called' = [name |-> "goToPage", arg |-> page]
  /\ UNCHANGED <<totalItems, initialPage, initialPageSize, pageSize>>

\* goToPage(page)
GoToPage(page) ==
  /\ LET targetPage == Max(1, Min(page, TotalPages(totalItems, pageSize)))
     IN  currentPage' = IF targetPage # currentPage THEN targetPage ELSE currentPage
  /\ called' = [name |-> "goToPage", arg |-> page]
  /\ UNCHANGED <<totalItems, initialPage, initialPageSize, pageSize>>

\* nextPage(): only when hasNextPage
NextPage ==
  /\ currentPage' = IF currentPage < TotalPages(totalItems, pageSize)
                      THEN currentPage + 1 ELSE currentPage
  /\ called' = [name |-> "nextPage", arg |-> NoArg]
  /\ UNCHANGED <<totalItems, initialPage, initialPageSize, pageSize>>

\* prevPage(): only when hasPrevPage
PrevPage ==
  /\ currentPage' = IF currentPage > 1 THEN currentPage - 1 ELSE currentPage
  /\ called' = [name |-> "prevPage", arg |-> NoArg]
  /\ UNCHANGED <<totalItems, initialPage, initialPageSize, pageSize>>

\* firstPage()
FirstPage ==
  /\ currentPage' = 1
  /\ called' = [name |-> "firstPage", arg |-> NoArg]
  /\ UNCHANGED <<totalItems, initialPage, initialPageSize, pageSize>>

\* lastPage()
LastPage ==
  /\ currentPage' = TotalPages(totalItems, pageSize)
  /\ called' = [name |-> "lastPage", arg |-> NoArg]
  /\ UNCHANGED <<totalItems, initialPage, initialPageSize, pageSize>>

\* changePageSize(newPageSize): the current page is moved to the new last
\* page when it lies behind it (newTotalPages || 1).
ChangePageSize(newPageSize) ==
  /\ LET newTotalPages == TotalPages(totalItems, newPageSize)
     IN  currentPage' = IF currentPage > newTotalPages
                          THEN (IF newTotalPages = 0 THEN 1 ELSE newTotalPages)
                          ELSE currentPage
  /\ pageSize' = newPageSize
  /\ called' = [name |-> "changePageSize", arg |-> newPageSize]
  /\ UNCHANGED <<totalItems, initialPage, initialPageSize>>

\* reset()
Reset ==
  /\ currentPage' = initialPage
  /\ pageSize' = initialPageSize
  /\ called' = [name |-> "reset", arg |-> NoArg]
  /\ UNCHANGED <<totalItems, initialPage, initialPageSize>>

\* The component renders again with a list of another length (the
\* filtered list of CombinedDemo); the state cells stay.
SetTotalItems(n) ==
  /\ n # totalItems
  /\ totalItems' = n
  /\ called' = [name |-> "render", arg |-> n]
  /\ UNCHANGED <<initialPage, initialPageSize, currentPage, pageSize>>

\* ----------------------------------------------------- useDebouncedSearch
\* Terms typed into the search box.
SearchTerms == {"", "a", "b"}

\* useState([]) of results
NoResults == <<>>

\* err.message || 'Search failed'
SearchErrorMessage(msg) == IF msg = "" THEN "Search failed" ELSE msg

\* First render and its effects: the handler for the initial term '' is
\* scheduled, performSearch took the blank branch.
SearchInit ==
  search = [searchTerm |-> "", debouncedSearchTerm |-> "",
            timer |-> [active |-> TRUE, value |-> ""],
            results |-> NoResults, loading |-> FALSE, error |-> NoError,
            pending |-> EmptyBag]

\* setSearchTerm(v) with a new value: useDebounce clears the handler and
\* schedules one for v.
SetSearchTerm(v) ==
  /\ v # search.searchTerm
  /\ search' = [search EXCEPT !.searchTerm = v,
                              !.timer = [active |-> TRUE, value |-> v]]

\* The handler of useDebounce runs; a new debounced term runs the search
\* effect: performSearch up to its await.
SearchTimerFire ==
  /\ search.timer.active
  /\ LET term == search.timer.value
         old == MapBag(LAMBDA r : [r EXCEPT !.cur = FALSE], search.pending)
     IN  IF term = search.debouncedSearchTerm
           THEN search' = [search EXCEPT !.timer = [active |-> FALSE, value |-> ""]]
           ELSE IF Trim(term) = ""
             THEN search' = [search EXCEPT !.timer = [active |-> FALSE, value |-> ""],
                                           !.debouncedSearchTerm = term,
                                           !.results = NoResults,
                                           !.loading = FALSE,
                                           !.pending = old]
             ELSE /\ BagCardinality(search.pending) < MaxPending
                  /\ search' = [search EXCEPT !.timer = [active |-> FALSE, value |-> ""],
                                              !.debouncedSearchTerm = term,
                                              !.loading = TRUE,
                                              !.error = NoError,
                                              !.pending = old (+)
                                                SetToBag({[q |-> term, cur |-> TRUE]})]

\* searchFunction resolves for the pending call r: setResults, then finally.
SearchResolve(r) ==
  /\ BagIn(r, search.pending)
  /\ search' = [search EXCEPT !.results = Result(r.q),
                              !.loading = FALSE,
                              !.pending = search.pending (-) SetToBag({r})]

\* searchFunction rejects for the pending call r: catch, then finally.
SearchReject(r, msg) ==
  /\ BagIn(r, search.pending)
  /\ search' = [search EXCEPT !.error = SearchErrorMessage(msg),
                              !.results = NoResults,
                              !.loading = FALSE,
                              !.pending = search.pending (-) SetToBag({r})]

\* clearSearch()
ClearSearch ==
  /\ search' = [search EXCEPT !.searchTerm = "",
                              !.results = NoResults,
                              !.error = NoError,
                              !.timer = IF search.searchTerm = ""
                                          THEN search.timer
                                          ELSE [active |-> TRUE, value |-> ""]]

\* ---------------------------------------------------- PagedInfiniteScroll
\* The server has ServerPages pages; page p is delivered as the one item p.
ServerPages == MaxLoads - 1

\* response.hasNextPage of loadPage(p)
ResponseHasNextPage(p) == p < ServerPages

\* The values of the state cells a render captures in loadMoreItems and in
\* the observer callback of InfiniteScroll.
Snapshot(s) ==
  [currentPage |-> s.currentPage, hasNextPage |-> s.hasNextPage,
   isLoading |-> s.isLoading, error |-> s.error]

\* loadMoreItems of the render that captured cl, up to its await.
LoadMoreItems(cl) ==
  IF cl.isLoading \/ ~cl.hasNextPage
    THEN UNCHANGED scroll
    ELSE /\ Len(scroll.items) + BagCardinality(scroll.pending) < MaxLoads
         /\ scroll' = [scroll EXCEPT !.isLoading = TRUE,
                                     !.error = NoError,
                                     !.pending = @ (+) SetToBag({cl.currentPage})]

\* First render and its effects: the observer is installed and the mount
\* effect has called loadMoreItems() of the first render.
ScrollInit ==
  scroll = [items |-> <<>>, currentPage |-> 1, hasNextPage |-> TRUE,
            isLoading |-> TRUE, error |-> NoError,
            seen |-> [currentPage |-> 1, hasNextPage |-> TRUE,
                      isLoading |-> FALSE, error |-> NoError],
            pending |-> SetToBag({1})]

\* The sentinel comes into view: the observer callback of the installed
\* render.
Intersect ==
  /\ scroll.seen.hasNextPage
  /\ ~scroll.seen.isLoading
  /\ scroll.seen.error = NoError
  /\ LoadMoreItems(scroll.seen)

\* Click on Retry, which is rendered while error is set: handleRetry.
Retry ==
  /\ scroll.seen.error # NoError
  /\ LoadMoreItems(scroll.seen)

\* The pending loadPage(p) resolves: the continuation with its functional
\* updates, then finally.
LoadResolve(p) ==
  /\ BagIn(p, scroll.pending)
  /\ scroll' = [scroll EXCEPT !.items = Append(@, p),
                              !.hasNextPage = ResponseHasNextPage(p),
                              !.currentPage = @ + 1,
                              !.isLoading = FALSE,
                              !.pending = @ (-) SetToBag({p})]

\* The pending loadPage(p) rejects: catch, then finally.
LoadReject(p, msg) ==
  /\ BagIn(p, scroll.pending)
  /\ scroll' = [scroll EXCEPT !.error = IF msg = "" THEN "Failed to load data" ELSE msg,
                              !.isLoading = FALSE,
                              !.pending = @ (-) SetToBag({p})]

\* React renders the component with the new state and runs the effects:
\* a new loadMoreItems and a new observer callback are installed.
Commit ==
  /\ scroll.seen # Snapshot(scroll)
  /\ scroll' = [scroll EXCEPT !.seen = Snapshot(scroll)]

\* ------------------------------------------- SortableTable, MultiSortTable
Columns == 1..MaxColumns

\* key: null
NoKey == 0

\* useState({ key: null, direction: 'asc' }) and useState([])
SortInit ==
  sorting = [sortConfig |-> [key |-> NoKey, direction |-> "asc"],
             sortConfigs |-> <<>>,
             streak |-> [column |-> NoKey, n |-> 0],
             clicks |-> [c \in Columns |-> 0]]

\* The updater of SortableTable.handleSort that only toggles the direction.
SortUpdaterToggle(prevConfig, columnKey) ==
  IF prevConfig.key = columnKey
    THEN IF prevConfig.direction = "asc"
           THEN [key |-> columnKey, direction |-> "desc"]
           ELSE [key |-> columnKey, direction |-> "asc"]
    ELSE [key |-> columnKey, direction |-> "asc"]

\* The updater of SortableTable.handleSort
SortUpdater(prevConfig, columnKey) ==
  IF prevConfig.key = columnKey
    THEN IF prevConfig.direction = "asc"
           THEN [key |-> columnKey, direction |-> "desc"]
           ELSE [key |-> NoKey, direction |-> "asc"]
    ELSE [key |-> columnKey, direction |-> "asc"]

\* prevConfigs.findIndex(config => config.key === columnKey), 0 for -1
FindIndex(prevConfigs, columnKey) ==
  IF \E i \in 1..Len(prevConfigs) : prevConfigs[i].key = columnKey
    THEN CHOOSE i \in 1..Len(prevConfigs) :
           /\ prevConfigs[i].key = columnKey
           /\ \A j \in 1..(i - 1) : prevConfigs[j].key # columnKey
    ELSE 0

\* The updater of MultiSortTable.handleSort
MultiSortUpdater(prevConfigs, columnKey) ==
  LET existingIndex == FindIndex(prevConfigs, columnKey)
  IN  IF existingIndex # 0
        THEN IF prevConfigs[existingIndex].direction = "asc"
               THEN [prevConfigs EXCEPT ![existingIndex].direction = "desc"]
               ELSE SubSeq(prevConfigs, 1, existingIndex - 1) \o
                      SubSeq(prevConfigs, existingIndex + 1, Len(prevConfigs))
        ELSE Append(prevConfigs, [key |-> columnKey, direction |-> "asc"])

\* Click on the header of column columnKey of SortableTable.
HandleSort(columnKey) ==
  sorting' = [sorting EXCEPT
    !.sortConfig = SortUpdater(@, columnKey),
    !.streak = IF sorting.streak.column = columnKey /\ sorting.streak.n \in {1, 2}
                 THEN [column |-> columnKey, n |-> sorting.streak.n + 1]
                 ELSE [column |-> columnKey, n |-> 1]]

\* Click on the header of column columnKey of MultiSortTable.
HandleMultiSort(columnKey) ==
  sorting' = [sorting EXCEPT
    !.sortConfigs = MultiSortUpdater(@, columnKey),
    !.clicks[columnKey] = (@ + 1) % 3]

\* ------------------------------------------------------------ RecipeDetail
RecipeIds == 1..MaxRecipes

\* recipe: null while no recipe is loaded
NoRecipe == 0

\* No localStorage item rating_<id>; the ratings are 1..5 stars.
NoRating == 0

Ratings == {1, 5}

\* favs.includes(id)
Includes(favs, id) == \E i \in 1..Len(favs) : favs[i] = id

\* The ids of the list favs
IdSet(favs) == {favs[i] : i \in 1..Len(favs)}

\* First render: nobody logged in, no recipe loaded yet, an empty
\* localStorage.
FavInit ==
  favorites = [user |-> FALSE, recipe |-> NoRecipe, stored |-> <<>>,
               ratings |-> [id \in RecipeIds |-> NoRating],
               isFavorite |-> FALSE, rating |-> 0,
               toggles |-> 0, before |-> {}]

\* The user logs in or out (AuthContext).
SetUser(u) ==
  /\ u # favorites.user
  /\ favorites' = [favorites EXCEPT !.user = u, !.toggles = 0, !.before = {}]

\* fetchRecipeDetails(id) resolves: setRecipe(data), and the two effects on
\* [recipe] read the rating and the favorites from localStorage.
LoadRecipe(id) ==
  /\ id # favorites.recipe
  /\ favorites' = [favorites EXCEPT
       !.recipe = id,
       !.isFavorite = Includes(favorites.stored, id),
       !.rating = IF favorites.ratings[id] # NoRating
                    THEN favorites.ratings[id] ELSE @,
       !.toggles = 0,
       !.before = {}]

\* navigate('/login'): RecipeDetail is unmounted, its state cells are gone.
Navigate ==
  favorites' = [favorites EXCEPT !.recipe = NoRecipe, !.isFavorite = FALSE,
                                 !.rating = 0, !.toggles = 0, !.before = {}]

\* handleFavorite that appends the id without looking for it.
HandleFavoriteAppend ==
  /\ favorites.recipe # NoRecipe
  /\ IF ~favorites.user
       THEN Navigate
       ELSE favorites' = [favorites EXCEPT
              !.stored = Append(@, favorites.recipe),
              !.isFavorite = TRUE,
              !.toggles = IF @ = 1 THEN 2 ELSE 1,
              !.before = IF favorites.toggles = 1 THEN @ ELSE IdSet(favorites.stored)]

\* handleFavorite, on the page of a loaded recipe
HandleFavorite ==
  /\ favorites.recipe # NoRecipe
  /\ IF ~favorites.user
       THEN Navigate
       ELSE LET favs == favorites.stored
                id == favorites.recipe
            IN  favorites' = [favorites EXCEPT
                  !.stored = IF Includes(favs, id)
                               THEN SelectSeq(favs, LAMBDA x : x # id)
                               ELSE Append(favs, id),
                  !.isFavorite = ~Includes(favs, id),
                  !.toggles = IF @ = 1 THEN 2 ELSE 1,
                  !.before = IF favorites.toggles = 1 THEN @ ELSE IdSet(favs)]

\* handleRating(value), on the page of a loaded recipe
HandleRating(value) ==
  /\ favorites.recipe # NoRecipe
  /\ IF ~favorites.user
       THEN Navigate
       ELSE favorites' = [favorites EXCEPT
              !.rating = value,
              !.ratings[favorites.recipe] = value,
              !.toggles = 0,
              !.before = {}]

PNext ==
  \/ (\E page \in PageArgs : GoToPage(page)) /\ UNCHANGED <<vars, cvars>>
  \/ NextPage /\ UNCHANGED <<vars, cvars>>
  \/ PrevPage /\ UNCHANGED <<vars, cvars>>
  \/ FirstPage /\ UNCHANGED <<vars, cvars>>
  \/ LastPage /\ UNCHANGED <<vars, cvars>>
  \/ (\E newPageSize \in PageSizes : ChangePageSize(newPageSize)) /\ UNCHANGED <<vars, cvars>>
  \/ Reset /\ UNCHANGED <<vars, cvars>>
  \/ (\E n \in 0..MaxItems : SetTotalItems(n)) /\ UNCHANGED <<vars, cvars>>

\* The hook with the debounce delay as one step of time.
Next ==
  \/ (\E v \in Queries : SetQuery(v)) /\ UNCHANGED <<pvars, cvars>>
  \/ Elapse /\ UNCHANGED <<pvars, cvars>>
  \/ TimerFire /\ UNCHANGED <<pvars, cvars>>
  \/ AnyResolve /\ UNCHANGED <<pvars, cvars>>
  \/ AnyReject /\ UNCHANGED <<pvars, cvars>>
  \/ ClearCache /\ UNCHANGED <<pvars, cvars>>
  \/ Refetch /\ UNCHANGED <<pvars, cvars>>
  \/ Unmount /\ UNCHANGED <<pvars, cvars>>

\* The other components in their first state.
CInit == SearchInit /\ ScrollInit /\ SortInit /\ FavInit

HookInit == Init /\ PIdle /\ CInit

Spec == HookInit /\ [][Next]_<<vars, pvars, cvars>>

\* The hook with time counted in ticks, for the timing of the debounce.
InitTimed == Init /\ cacheSize = MaxCacheSize

NextTimed ==
  \/ (\E v \in Queries : SetQuery(v)) /\ UNCHANGED <<pvars, cvars>>
  \/ Tick /\ UNCHANGED <<pvars, cvars>>
  \/ TimerFire /\ UNCHANGED <<pvars, cvars>>
  \/ AnyResolve /\ UNCHANGED <<pvars, cvars>>
  \/ AnyReject /\ UNCHANGED <<pvars, cvars>>
  \/ ClearCache /\ UNCHANGED <<pvars, cvars>>
  \/ Refetch /\ UNCHANGED <<pvars, cvars>>
  \/ Unmount /\ UNCHANGED <<pvars, cvars>>

HookInitTimed == InitTimed /\ PIdle /\ CInit

SpecTimed == HookInitTimed /\ [][NextTimed]_<<vars, pvars, cvars>>

\* usePagination alone, beside a useDebouncedAPI that is left in its first
\* state.
PaginationInit == InitTimed /\ PInit /\ CInit

SpecPagination == PaginationInit /\ [][PNext]_<<vars, pvars, cvars>>

\* Each of the other components alone, the rest left in its first state.
SearchNext ==
  \/ (\E v \in SearchTerms : SetSearchTerm(v))
       /\ UNCHANGED <<vars, pvars, scroll, sorting, favorites>>
  \/ SearchTimerFire /\ UNCHANGED <<vars, pvars, scroll, sorting, favorites>>
  \/ (\E r \in BagToSet(search.pending) : SearchResolve(r))
       /\ UNCHANGED <<vars, pvars, scroll, sorting, favorites>>
  \/ (\E r \in BagToSet(search.pending) : \E msg \in Messages : SearchReject(r, msg))
       /\ UNCHANGED <<vars, pvars, scroll, sorting, favorites>>
  \/ ClearSearch /\ UNCHANGED <<vars, pvars, scroll, sorting, favorites>>

SpecSearch == HookInitTimed /\ [][SearchNext]_<<vars, pvars, cvars>>

ScrollNext ==
  \/ Intersect /\ UNCHANGED <<vars, pvars, search, sorting, favorites>>
  \/ Retry /\ UNCHANGED <<vars, pvars, search, sorting, favorites>>
  \/ (\E p \in BagToSet(scroll.pending) : LoadResolve(p))
       /\ UNCHANGED <<vars, pvars, search, sorting, favorites>>
  \/ (\E p \in BagToSet(scroll.pending) : \E msg \in Messages : LoadReject(p, msg))
       /\ UNCHANGED <<vars, pvars, search, sorting, favorites>>
  \/ Commit /\ UNCHANGED <<vars, pvars, search, sorting, favorites>>

SpecScroll == HookInitTimed /\ [][ScrollNext]_<<vars, pvars, cvars>>

SortNext ==
  \/ (\E c \in Columns : HandleSort(c))
       /\ UNCHANGED <<vars, pvars, search, scroll, favorites>>
  \/ (\E c \in Columns : HandleMultiSort(c))
       /\ UNCHANGED <<vars, pvars, search, scroll, favorites>>

SpecSort == HookInitTimed /\ [][SortNext]_<<vars, pvars, cvars>>

FavNext ==
  \/ (\E u \in BOOLEAN : SetUser(u))
       /\ UNCHANGED <<vars, pvars, search, scroll, sorting>>
  \/ (\E id \in RecipeIds : LoadRecipe(id))
       /\ UNCHANGED <<vars, pvars, search, scroll, sorting>>
  \/ HandleFavorite /\ UNCHANGED <<vars, pvars, search, scroll, sorting>>
  \/ (\E value \in Ratings : HandleRating(value))
       /\ UNCHANGED <<vars, pvars, search, scroll, sorting>>

SpecFavorites == HookInitTimed /\ [][FavNext]_<<vars, pvars, cvars>>

\* ---------------------------------------------------------- vocabulary
\* The pending lookup r is live: the effect that started it has not been
\* cleaned up and its signal has not been aborted.
Live(r) == ~r.sup /\ ~r.aborted

\* A step in which the timer callback makes the debounced query a new value.
EmitsNew == TimerFire /\ debouncedQuery' # debouncedQuery

\* A step after which the component renders again: a state cell of the
\* hook has a new value.  The object the hook returns, cacheSize:
\* cache.current.size included, is built during a render only.
Rendered ==
  <<query, debouncedQuery, data, loading, error>>' #
    <<query, debouncedQuery, data, loading, error>>

\* ------------------------------------------------------------------ C1
\* C1: when a lookup that was superseded by a newer debounced query
\* resolves, data, loading and error stay what the newer query made them.
C1_StaleResultDiscarded ==
  [][\A r \in BagToSet(lookups) :
       (mounted /\ r.sup /\ Resolve(r)) => UNCHANGED <<data, loading, error>>]_vars

\* ------------------------------------------------------------------ C2
\* C2 as stated: the timer callback carries the last value set and runs
\* only when Delay ticks have passed with no setQuery call in them.
C2_FiresDelayAfterLastCall ==
  [][TimerFire => (~lateCall /\ sinceChange = Delay /\ timer.value = query)]_vars

\* C2 amended: one burst of changes of query gives exactly one timer
\* callback; it runs Delay ticks after the last change of query, not
\* earlier, and carries the last value set, which is the debounced query
\* from then on until query changes again.
C2_BurstState ==
  mounted =>
    /\ emitted <= 1
    /\ (emitted = 0) <=> timer.active
    /\ timer.active => (timer.value = query /\ timer.left = Delay - sinceChange)
    /\ emitted = 1 => (debouncedQuery = query /\ sinceChange = Delay)

C2_Coalescing ==
  [][/\ TimerFire => (sinceChange = Delay /\ emitted = 0 /\ debouncedQuery' = query)
     /\ C2_BurstState']_vars

\* The one callback of a burst that ended with "b" has run, Delay ticks
\* after the last change, and started the lookup for "b".
C2_Witness ==
  /\ mounted
  /\ emitted = 1
  /\ query = "b"
  /\ debouncedQuery = "b"
  /\ sinceChange = Delay
  /\ \E r \in BagToSet(lookups) : r.q = "b" /\ Live(r)

C4_FifoEviction ==
  [][\A r \in BagToSet(lookups) :
       (Len(cache) = cacheSize /\ ~CacheHas(cache, r.q) /\ Resolve(r))
         => /\ Len(cache) >= 1
            /\ cache' = Append(Tail(cache), [key |-> r.q, value |-> Result(r.q)])]_vars

\* For a capacity of at least one the eviction is first in, first out.
FifoWhenPositive ==
  [][\A r \in BagToSet(lookups) :
       (/\ cacheSize >= 1
        /\ Len(cache) = cacheSize
        /\ ~CacheHas(cache, r.q)
        /\ Resolve(r))
         => cache' = Append(Tail(cache), [key |-> r.q, value |-> Result(r.q)])]_vars

\* ------------------------------------------------------------------ C5
\* C5: the cache never holds more than cacheSize entries.
C5_CacheBound == Len(cache) <= cacheSize

\* ------------------------------------------------------------------ C6
\* C6: loading is true exactly while a lookup that is neither superseded
\* nor aborted is pending.
C6_LoadingExact ==
  mounted => (loading <=> \E r \in BagToSet(lookups) : Live(r))

\* ------------------------------------------------------------------ C7
\* C7: at most one pending lookup has a signal that is not aborted.
C7_OneActiveLookup ==
  BagCardinality([r \in {x \in BagToSet(lookups) : ~x.aborted} |-> lookups[r]]) <= 1

C9_BlankShortCircuit ==
  [][(EmitsNew /\ Trim(debouncedQuery') = "")
       => /\ data' = NoData
          /\ loading' = FALSE
          /\ error' = NoError
          /\ BagCardinality(lookups') = BagCardinality(lookups)
          /\ cache' = cache]_vars

\* ----------------------------------------------------------------- C10
\* C10: a rejection with an AbortError changes neither error nor data.
C10_CancelIsNoError ==
  [][last' = "cancelled" =>
       \A r \in BagToSet(lookups) : \A msg \in Messages :
         Reject(r, "AbortError", msg) => (error' = error /\ data' = data)]_vars

\* An aborted lookup was rejected with an AbortError while the result of an
\* earlier query was shown.
C10_Witness ==
  /\ mounted
  /\ last = "cancelled"
  /\ data # NoData
  /\ error = NoError

\* ----------------------------------------------------------------- C11
\* C11: error is null after every timer callback that makes the debounced
\* query a new non-blank value, whether fetchData serves it from the cache
\* or starts a lookup, so that the error of an earlier query is never shown
\* beside the data of the new one.
C11_ErrorCleared ==
  [][(EmitsNew /\ Trim(debouncedQuery') # "")
       => /\ error' = NoError
          /\ ~(error' # NoError /\ data' # NoData)]_vars

\* ----------------------------------------------------------------- C12
\* C12: refetch() while the debounced query is a non-blank key removes the
\* key from the cache and sets a new lookup going: it is started at once or
\* a debounce handler that will start it is pending afterwards.
C12_RefetchLooksUpAgain ==
  [][(Refetch /\ Trim(debouncedQuery) # "")
       => /\ ~CacheHas(cache', debouncedQuery)
          /\ \/ timer'.active
             \/ BagCardinality(lookups') > BagCardinality(lookups)]_vars

\* ----------------------------------------------------------------- C13
\* C13: clearCache() empties the cache and leaves query, debounced query,
\* data, loading, error, the pending handler and the pending lookups as
\* they are; a lookup that was pending then still applies its result when
\* it resolves.
C13_ClearCacheFrame ==
  [][/\ ClearCache
          => /\ cache' = <<>>
             /\ UNCHANGED <<query, debouncedQuery, data, loading, error,
                            timer, lookups>>
     /\ (mounted /\ last = "cleared")
          => \A r \in BagToSet(lookups) :
               Resolve(r) => /\ data' = Result(r.q)
                             /\ CacheHas(cache', r.q)
                             /\ CacheGet(cache', r.q) = Result(r.q)]_vars

\* clearCache() ran while the result of "a" was shown and cached and the
\* lookup for "b" was pending: the cache is empty, the rest is as it was.
C13_Witness ==
  /\ mounted
  /\ last = "cleared"
  /\ cache = <<>>
  /\ data = Result("a")
  /\ loading
  /\ \E r \in BagToSet(lookups) : r.q = "b" /\ Live(r)

\* ----------------------------------------------------------------- C14
\* C14: once the component is unmounted no handler is pending, and from
\* then on no timer callback runs, the debounced query does not change and
\* no lookup is started.
C14_TeardownCancelsTimer ==
  [][/\ ~mounted' => ~timer'.active
     /\ ~mounted => /\ emitted' = emitted
                    /\ debouncedQuery' = debouncedQuery
                    /\ BagCardinality(lookups') <= BagCardinality(lookups)]_vars

\* The component was unmounted while the handler for a changed query was
\* pending (no callback had run since the change) and a lookup was in
\* flight.
C14_Witness ==
  /\ ~mounted
  /\ emitted = 0
  /\ ~timer.active
  /\ BagCardinality(lookups) = 1

\* ----------------------------------------------------------------- C17
\* C17: every pending lookup whose effect has been cleaned up, by a change
\* of the debounced query or by the unmount, has an aborted signal.
C17_SupersessionAborts ==
  \A r \in BagToSet(lookups) : r.sup => r.aborted

\* ----------------------------------------------------------------- C18
\* C18: when a superseded lookup rejects with an error that is not an
\* AbortError, data, loading and error stay as they are.
C18_StaleFailureDiscarded ==
  [][(mounted /\ last' = "staleRejected")
       => \A r \in BagToSet(lookups) : \A msg \in Messages :
            (r.sup /\ Reject(r, "Error", msg))
              => UNCHANGED <<data, loading, error>>]_vars

\* ----------------------------------------------------------------- C19
\* C19: with no handler and no lookup pending the hook waits for the next
\* call of the caller; in every such state loading is false and data and
\* error are the outcome for the debounced query: both null for a blank
\* query, else the result of the lookup and no error, or no data and the
\* error of the failed lookup.
C19_EventualSettlement ==
  (mounted /\ ~timer.active /\ lookups = EmptyBag)
    => /\ loading = FALSE
       /\ IF Trim(debouncedQuery) = ""
            THEN data = NoData /\ error = NoError
            ELSE \/ data = Result(debouncedQuery) /\ error = NoError
                 \/ data = NoData /\ error \in {ErrorMessage(m) : m \in Messages}

\* ----------------------------------------------------------------- C20
\* A handler is not pending, loading is false and a result or an error is
\* shown.
Settled ==
  /\ mounted
  /\ ~timer.active
  /\ ~loading
  /\ (data # NoData \/ error # NoError)

\* C20: in a settled state the late completion of a superseded lookup, a
\* result or a failure, changes neither data, loading, error nor the cache.
C20_SettledStable ==
  [][Settled
       => \A r \in BagToSet(lookups) :
            (r.sup /\ (Resolve(r) \/ \E msg \in Messages : Reject(r, "Error", msg)))
              => UNCHANGED <<data, loading, error, cache>>]_vars

\* ----------------------------------------------------------------- C15
\* C15: totalPages is the least number of pages of pageSize items that hold
\* totalItems items, in every state of the hook, after changePageSize too.
C15_TotalPagesIsCeil ==
  LET totalPages == TotalPages(totalItems, pageSize)
  IN  /\ totalPages >= 0
      /\ totalPages * pageSize >= totalItems
      /\ (totalPages - 1) * pageSize < totalItems

\* changePageSize(2) on a list of 5 items: 3 pages, the last one not full.
C15_Witness ==
  /\ called = [name |-> "changePageSize", arg |-> 2]
  /\ totalItems = 5
  /\ pageSize = 2
  /\ TotalPages(totalItems, pageSize) = 3

\* ----------------------------------------------------------------- C16
\* C16: with at least one page, goToPage(p) makes currentPage the page p
\* clamped into 1..totalPages and leaves pageSize as it is.
C16_GoToPageClamps ==
  [][\A p \in PageArgs :
       (GoToPage(p) /\ TotalPages(totalItems, pageSize) >= 1)
         => /\ currentPage' = (IF p < 1 THEN 1
                               ELSE IF p > TotalPages(totalItems, pageSize)
                                      THEN TotalPages(totalItems, pageSize)
                                      ELSE p)
            /\ pageSize' = pageSize]_pvars

\* goToPage was called with a page behind the last of 3 pages and went to
\* page 3.
C16_Witness ==
  /\ called.name = "goToPage"
  /\ called.arg > 3
  /\ totalItems = 5
  /\ pageSize = 2
  /\ currentPage = 3

\* ----------------------------------------------------------------- C21
\* C21: when a lookup for key k whose signal is not aborted resolves with
\* value v in the mounted component, the cache maps k to v, data is v and
\* loading is false afterwards.
C21_SuccessfulCompletion ==
  [][(mounted /\ last' \in {"resolved", "staleResolved"})
       => \A r \in BagToSet(lookups) :
            (~r.aborted /\ Resolve(r))
              => /\ \E j \in 1..Len(cache') :
                      cache'[j] = [key |-> r.q, value |-> Result(r.q)]
                 /\ data' = Result(r.q)
                 /\ loading' = FALSE]_vars

\* The lookup for "b" resolved into a cache that already held "a".
C21_Witness ==
  /\ mounted
  /\ last = "resolved"
  /\ debouncedQuery = "b"
  /\ data = Result("b")
  /\ ~loading
  /\ cache = <<[key |-> "a", value |-> Result("a")],
               [key |-> "b", value |-> Result("b")]>>

\* ----------------------------------------------------------------- C22
\* C22: a result stored for a key that is already in the cache changes
\* nothing: not the value, not the order, not the keys.
C22_FirstWriteWins ==
  [][\A r \in BagToSet(lookups) :
       (CacheHas(cache, r.q) /\ Resolve(r)) => cache' = cache]_vars

\* ----------------------------------------------------------------- C23
\* C23: a debounce handler and a lookup whose signal is not aborted are
\* never pending together.
C23_OnePendingOperation ==
  mounted => ~(timer.active /\ \E r \in BagToSet(lookups) : ~r.aborted)

\* ----------------------------------------------------------------- C24
\* C24: the cacheSize shown to the caller is the number of entries of the
\* cache in every state: every step that changes that number makes the
\* component render again.
C24_CacheSizeFresh ==
  [][(mounted' /\ Len(cache') # Len(cache)) => Rendered]_vars

\* ----------------------------------------------------------------- C25
\* C25: every entry of the cache holds, under a key that is not blank, the
\* value the lookup called with that very key returned.
C25_CacheConsistent ==
  \A j \in 1..Len(cache) :
    /\ Trim(cache[j].key) # ""
    /\ cache[j].value = Result(cache[j].key)

\* The late result of the superseded lookup for "a " was stored beside the
\* one of "a", each under its own key, while the debounced query was
\* another one.
C25_Witness ==
  /\ last = "staleResolved"
  /\ Len(cache) = 2
  /\ CacheHas(cache, "a ")
  /\ CacheHas(cache, "a")
  /\ debouncedQuery \notin {"a", "a "}

\* ----------------------------------------------------------------- C26
\* The current page lies in 1..max(1, totalPages).
PageInRange ==
  /\ 1 <= currentPage
  /\ currentPage <= Max(1, TotalPages(totalItems, pageSize))

\* The initial page is a page of the list as it is now.
InitialPageValid ==
  initialPage <= Max(1, TotalPages(totalItems, initialPageSize))

\* C26: with a valid initial page, goToPage, nextPage, prevPage,
\* firstPage, lastPage, changePageSize and reset each keep the current
\* page in 1..max(1, totalPages).
C26_PageRange ==
  [][(PageInRange /\ InitialPageValid /\ called'.name \notin {"render", "mount"})
       => PageInRange']_pvars

\* ----------------------------------------------------------------- C27
\* C27: in useDebouncedSearch loading is true while the lookup started for
\* the current debounced term is pending, and once no lookup and no handler
\* is pending results and error are the outcome for the debounced term:
\* no results for a blank term, else the results of the lookup for that
\* term and no error, or no results and its error.
C27_OverlapOutcome ==
  /\ (\E r \in BagToSet(search.pending) : r.cur) => search.loading
  /\ (BagCardinality(search.pending) = 0 /\ ~search.timer.active)
       => IF Trim(search.debouncedSearchTerm) = ""
            THEN search.results = NoResults
            ELSE \/ /\ search.results = Result(search.debouncedSearchTerm)
                    /\ search.error = NoError
                 \/ /\ search.results = NoResults
                    /\ search.error \in {SearchErrorMessage(m) : m \in Messages}

\* ----------------------------------------------------------------- C28
\* C28: in PagedInfiniteScroll at most one loadPage call is pending, and
\* items holds the pages 1, 2, 3, ... in that order, each once.
C28_PageSequence ==
  /\ BagCardinality(scroll.pending) <= 1
  /\ \A i \in 1..Len(scroll.items) : scroll.items[i] = i

\* ----------------------------------------------------------------- C29
\* C29: in SortableTable the first click on a column that is not the sort
\* key sorts by it ascending, the second click in a row descending, the
\* third returns sortConfig to {key: null, direction: 'asc'}; in
\* MultiSortTable each column goes absent, ascending, descending, absent
\* with its own clicks, and no key is in sortConfigs twice.
C29_SortCycle ==
  /\ sorting.streak.n = 1 =>
       sorting.sortConfig = [key |-> sorting.streak.column, direction |-> "asc"]
  /\ sorting.streak.n = 2 =>
       sorting.sortConfig = [key |-> sorting.streak.column, direction |-> "desc"]
  /\ sorting.streak.n = 3 =>
       sorting.sortConfig = [key |-> NoKey, direction |-> "asc"]
  /\ \A c \in Columns :
       LET entries == {i \in 1..Len(sorting.sortConfigs) : sorting.sortConfigs[i].key = c}
       IN  /\ Cardinality(entries) <= 1
           /\ sorting.clicks[c] = 0 <=> entries = {}
           /\ sorting.clicks[c] = 1 =>
                \A i \in entries : sorting.sortConfigs[i].direction = "asc"
           /\ sorting.clicks[c] = 2 =>
                \A i \in entries : sorting.sortConfigs[i].direction = "desc"

\* Three clicks in a row on column 1 have left SortableTable unsorted, and
\* MultiSortTable sorts by column 2 descending, then by column 1 ascending.
C29_Witness ==
  /\ sorting.streak = [column |-> 1, n |-> 3]
  /\ sorting.sortConfig = [key |-> NoKey, direction |-> "asc"]
  /\ sorting.sortConfigs = <<[key |-> 2, direction |-> "desc"],
                             [key |-> 1, direction |-> "asc"]>>

\* ----------------------------------------------------------------- C30
\* C30: handleFavorite and handleRating of a visitor who is not logged in
\* leave localStorage as it is; the stored favorites never hold an id
\* twice, isFavorite tells whether the id of the recipe shown is stored,
\* and two calls of handleFavorite in a row restore the set of favorites.
C30_FavoritesToggle ==
  [][/\ (~favorites.user /\ (HandleFavorite \/ \E v \in Ratings : HandleRating(v)))
          => /\ favorites'.stored = favorites.stored
             /\ favorites'.ratings = favorites.ratings
     /\ \A i, j \in 1..Len(favorites'.stored) :
          i # j => favorites'.stored[i] # favorites'.stored[j]
     /\ favorites'.recipe # NoRecipe =>
          (favorites'.isFavorite <=> Includes(favorites'.stored, favorites'.recipe))
     /\ favorites'.toggles = 2 => IdSet(favorites'.stored) = favorites'.before]_favorites

\* Recipe 1, a favorite beside recipe 2, was toggled off and on again.
C30_Witness ==
  /\ favorites.user
  /\ favorites.recipe = 1
  /\ favorites.toggles = 2
  /\ favorites.isFavorite
  /\ favorites.stored = <<2, 1>>
  /\ favorites.before = {1, 2}

====
